---- MODULE Spec2Model ----
(***************************************************************************)
(* Turn-taking core of the voice agent (backend/agent/basic_agent.py).     *)
(*                                                                         *)
(* The session runs on one asyncio event loop: a task runs without         *)
(* interruption from one await to the next, so one action of this module   *)
(* is the code a task executes between two consecutive suspension points.  *)
(*                                                                         *)
(*   transcription task  handle_transcription   (hpc)                      *)
(*   announcement task   process_announcements  (apc)                      *)
(*   speak_text          runs inline in either task                        *)
(*   environment         recognizer, Reasoner, synthesizer, room, clock    *)
(*                                                                         *)
(* Time is counted in steps of 0.5 s.                                      *)
(***************************************************************************)
EXTENDS Integers, Sequences, FiniteSets, TLC

\* ---------------------------------------------------------------- bounds
MaxTime   == 4      \* the clock stops after MaxTime steps of 0.5 s
MaxEvents == 2      \* recognizer events produced in one session
MaxAnn    == 1      \* announcements the Reasoner enqueues in one session
MaxChunks == 1      \* chunks one synthesis stream yields at most
MaxAudio  == 3      \* inbound audio events of one session

\* ------------------------------------------------------ program constants
MaxAttempts  == 100 \* polls of wait_for_audio_track
PollInterval == 100 \* ms slept before each poll
DedupWindow == 4    \* 2.0 s  (basic_agent.py:171), in steps of 0.5 s
PreThink    == 1    \* 0.5 s  (basic_agent.py:188), in steps of 0.5 s

NoneText == "None"                       \* last_transcript = None
Blank    == "  "                         \* a whitespace-only transcript
Texts    == {"hello", "bye"}             \* what the caller may say
Reply    == "Hi there!"                  \* a reply text of the Reasoner
Fallback == "I'm sorry, I encountered an error. Please try again."
Greeting == "Hey! I'm Paradise, your travel planning buddy. What can I help you with today?"
AnnTexts == <<"Let me check 1...", "Let me check 2...", "Let me check 3...">>

\* the events the recognizer may produce: text of the top alternative, final
Events == {[text |-> "hello", final |-> TRUE], [text |-> "bye", final |-> TRUE],
           [text |-> "hello", final |-> FALSE], [text |-> Blank, final |-> TRUE]}

H == "H"            \* the transcription task
A == "A"            \* the announcement task
Callers == {H, A}

VARIABLES
    now,                  \* time.time(), in steps of 0.5 s
    stt_events,           \* events the recognizer stream holds for `async for`
    produced,             \* number of recognizer events produced so far
    last_transcript,      \* DedupWindow text
    last_transcript_time, \* DedupWindow timestamp
    is_processing,
    is_speaking,
    chat_history,
    announcement_queue,
    sink,                 \* transcript events handed to publish_data, in order
    connected,            \* ctx.room.connection_state /= 0
    published,            \* the "agent-voice" publication is present
    hpc,                  \* position of handle_transcription
    user_transcript,      \* its local variable
    wake,                 \* when its asyncio.sleep(0.5) ends
    apc,                  \* position of process_announcements
    announcement,         \* its local variable
    chunks,               \* per caller: chunks the current synthesis has yielded
    calls,                \* Reasoner calls in progress
    started,              \* Reasoner calls started so far
    enqueued,             \* announcements enqueued so far
    turn,                 \* number of the current (or last) turn, 0 before any
    trace,                \* what the transcription task did in that turn
    acc_at,               \* production time of the event that started it
    last_outcome,         \* what became of the event evaluated last
    stamps,               \* whether produced events are stamped with `now`
    speech_log,           \* whether `spoken` and `enq_turn` are kept
    end_log,              \* whether `spoken` also keeps how a stream ended
    limit,                \* the bounds of the specification being checked
    passed,               \* chat history handed to the Reasoner call last
    spoken,               \* synthesis streams started, in order, each with
                          \* the number of sink events that preceded it and
                          \* how it ended
    enq_turn,             \* per announcement: the turn that enqueued it
    precheck_raised,      \* a pre-check of speak_text has raised
    shutdown_event,       \* asyncio.Event set by signal_handler
    cleanup_done,         \* the one-shot guard of cleanup_resources
    tpc,                  \* position of transcribe_audio
    dpc,                  \* position of wait_for_disconnect
    epc,                  \* position of entrypoint
    cancel_req,           \* tasks with a cancellation not yet delivered
    stt_input_ended,      \* stt_engine.end_input() has been called
    fx,                   \* what cleanup_resources has done so far, counted
    spc,                  \* position of the session's start-up
    attempts,             \* polls wait_for_audio_track has made
    waited,               \* ms it has slept
    inbound,              \* the participant has an audio publication with
                          \* a track
    user_audio_track,     \* the start-up holds the inbound audio track
    audio_stream,         \* inbound audio events not yet taken by `async for`
    audio_in,             \* the events transcribe_audio has taken, in order
    stt_frames,           \* the frames handed to stt_engine.push_frame
    push_raised,          \* push_frame has raised
    use_rag,              \* config.is_rag_enabled()
    use_tools,            \* config.are_tools_enabled()
    tool_calls            \* tool calls the Reasoner has begun

vars == <<now, stt_events, produced, last_transcript, last_transcript_time,
          is_processing, is_speaking, chat_history, announcement_queue, sink,
          connected, published, hpc, user_transcript, wake, apc, announcement,
          chunks, calls, started, enqueued, turn, trace, acc_at,
          last_outcome, stamps, speech_log, end_log, limit, passed, spoken, enq_turn,
          precheck_raised,
          shutdown_event, cleanup_done, tpc, dpc, epc, cancel_req,
          stt_input_ended, fx, spc, attempts, waited, inbound,
          user_audio_track, audio_stream, audio_in, stt_frames, push_raised,
          use_rag, use_tools, tool_calls>>

dedup_vars == <<last_transcript, last_transcript_time>>
flag_vars  == <<is_processing, is_speaking>>
room_vars  == <<connected, published>>
h_vars     == <<hpc, user_transcript, wake>>
a_vars     == <<apc, announcement>>
log_vars   == <<passed, spoken, enq_turn, precheck_raised>>
task_vars  == <<tpc, dpc, epc, cancel_req>>
shut_vars  == <<shutdown_event, cleanup_done, task_vars, stt_input_ended, fx>>
config_vars  == <<stamps, speech_log, end_log, limit>>
startup_vars == <<spc, attempts, waited, inbound, user_audio_track>>
ingest_vars  == <<audio_stream, audio_in, stt_frames, push_raised>>
\* what the steps of turn taking, speech and shutdown leave alone
tools_vars   == <<use_rag, use_tools, tool_calls>>
fixed_vars == <<config_vars, startup_vars, ingest_vars, tools_vars>>
ghost_vars == <<turn, trace, acc_at, last_outcome, fixed_vars, log_vars,
                shut_vars>>

\* -------------------------------------------------------------- helpers
\* str.strip() of a transcript is empty
IsBlank(t) == t \in {"", " ", Blank}

\* json.dumps({"type": "transcript", "text": ..., "is_user": ...}) as handed
\* to publish_data; `by` and `turn` record who emitted it and in which turn
Transcript(text, is_user, by) ==
    [type |-> "transcript", text |-> text, is_user |-> is_user,
     by |-> by, turn |-> turn]

\* send_transcript: the event is handed to the sink; a failure of
\* publish_data is swallowed and changes nothing of the session
send_transcript(text, is_user, by) ==
    sink' = Append(sink, Transcript(text, is_user, by))

\* nothing of cleanup_resources has happened
NoEffects ==
    [calls |-> 0, entered |-> 0, end_input |-> 0, aclose |-> 0, closed |-> 0,
     failed |-> 0, stop |-> 0, drain |-> 0]

\* the entrypoint's closure variables as they are first bound
Created ==
    /\ now = 0
    /\ stt_events = <<>>
    /\ produced = 0
    /\ last_transcript = NoneText
    /\ last_transcript_time = 0
    /\ is_processing = FALSE
    /\ is_speaking = FALSE
    /\ chat_history = <<>>
    /\ announcement_queue = <<>>
    /\ connected = TRUE
    /\ published = TRUE
    /\ user_transcript = NoneText
    /\ wake = 0
    /\ announcement = NoneText
    /\ chunks = [c \in Callers |-> 0]
    /\ calls = 0
    /\ started = 0
    /\ enqueued = 0
    /\ turn = 0
    /\ trace = <<>>
    /\ acc_at = 0
    /\ last_outcome = "none"
    /\ passed = <<>>
    /\ spoken = <<>>
    /\ enq_turn = <<>>
    /\ precheck_raised = FALSE
    /\ shutdown_event = FALSE
    /\ cleanup_done = FALSE
    /\ cancel_req = {}
    /\ stt_input_ended = FALSE
    /\ fx = NoEffects
    /\ audio_stream = <<>>
    /\ audio_in = <<>>
    /\ stt_frames = <<>>
    /\ push_raised = FALSE
    /\ tool_calls = 0

\* lines 332-334: the greeting as handed to the sink
GreetingSent ==
    <<[type |-> "transcript", text |-> Greeting, is_user |-> FALSE,
       by |-> "G", turn |-> 0]>>

\* the session when the four background tasks are created: the inbound track
\* was there at the first look, the greeting has been sent and spoken, nothing
\* was recognized yet
TasksCreated ==
    /\ Created
    /\ sink = GreetingSent
    /\ hpc = "wait"
    /\ apc = "poll"
    /\ tpc = "run"
    /\ dpc = "watch"
    /\ epc = "wait"
    /\ spc = "started"
    /\ attempts = 0
    /\ waited = 0
    /\ inbound = TRUE
    /\ user_audio_track = TRUE

\* that session with Pinecone and a lookup service configured
SessionStart ==
    /\ TasksCreated
    /\ use_rag = TRUE
    /\ use_tools = TRUE

\* the bounds of a session with several turns
Limits ==
    [time |-> MaxTime, events |-> MaxEvents, anns |-> MaxAnn, kinds |-> Events]

\* production times and the order of speech are history only: no code reads
\* them, so they are kept only by the specifications that need them
Init ==
    /\ SessionStart
    /\ stamps = FALSE
    /\ speech_log = FALSE
    /\ end_log = FALSE
    /\ limit = Limits

InitStamped ==
    /\ SessionStart
    /\ stamps = TRUE
    /\ speech_log = FALSE
    /\ end_log = FALSE
    /\ limit = Limits

\* ------------------------------------------------------------------ tasks
T == "T"            \* the ingest task (transcribe_audio)
D == "D"            \* the disconnect watch (wait_for_disconnect)
Tasks == {T, H, A, D}

\* task.done()
finished(t) ==
    CASE t = T -> tpc = "done"
      [] t = H -> hpc = "done"
      [] t = A -> apc = "done"
      [] t = D -> dpc = "done"

Running == {t \in Tasks : ~finished(t)}

\* the entrypoint has returned and every background task has ended
Terminated == epc = "done" /\ Running = {}

\* ------------------------------------------------------------ environment
Tick ==
    /\ now < limit.time
    /\ now' = now + 1
    /\ UNCHANGED <<stt_events, produced, dedup_vars, flag_vars, chat_history,
                   announcement_queue, sink, room_vars, h_vars, a_vars,
                   chunks, calls, started, enqueued, ghost_vars>>

\* the recognizer produces an event (interim or final, one alternative); the
\* stream keeps it until the `async for` of handle_transcription takes it
recognizer_event(t, f) ==
    /\ produced < limit.events
    /\ produced' = produced + 1
    /\ stt_events' = Append(stt_events,
                         [text |-> t, final |-> f,
                          at |-> IF stamps THEN now ELSE 0,
                          during |-> stamps /\ is_processing])
    /\ UNCHANGED <<now, dedup_vars, flag_vars, chat_history, announcement_queue,
                   sink, room_vars, h_vars, a_vars, chunks, calls, started,
                   enqueued, ghost_vars>>

\* the room connection goes to "disconnected"
room_disconnect ==
    /\ connected
    /\ connected' = FALSE
    /\ UNCHANGED <<now, stt_events, produced, dedup_vars, flag_vars,
                   chat_history, announcement_queue, sink, published, h_vars,
                   a_vars, chunks, calls, started, enqueued, ghost_vars>>

\* the "agent-voice" publication disappears from the local participant
track_unpublish ==
    /\ published
    /\ published' = FALSE
    /\ UNCHANGED <<now, stt_events, produced, dedup_vars, flag_vars,
                   chat_history, announcement_queue, sink, connected, h_vars,
                   a_vars, chunks, calls, started, enqueued, ghost_vars>>

\* ------------------------------------------------------------- speak_text
\* the two pre-checks of speak_text: room connected, track published
precheck == connected /\ published

\* speak_text whose rejecting pre-check returns without clearing the flag
speak_enter_flag_kept(c, text) ==
    IF precheck
    THEN /\ is_speaking' = TRUE
         /\ chunks' = [chunks EXCEPT ![c] = 0]
         /\ spoken' = IF speech_log
                      THEN Append(spoken, [by |-> c, text |-> text,
                                           turn |-> turn, after |-> Len(sink),
                                           end |-> "open"])
                      ELSE spoken
    ELSE /\ is_speaking' = TRUE
         /\ UNCHANGED <<chunks, spoken>>

\* speak_text up to its first await: the flag is set, and cleared again when a
\* pre-check rejects the call
speak_enter(c, text) ==
    IF precheck
    THEN /\ is_speaking' = TRUE
         /\ chunks' = [chunks EXCEPT ![c] = 0]
         /\ spoken' = IF speech_log
                      THEN Append(spoken, [by |-> c, text |-> text,
                                           turn |-> turn, after |-> Len(sink),
                                           end |-> "open"])
                      ELSE spoken
    ELSE /\ is_speaking' = FALSE
         /\ UNCHANGED <<chunks, spoken>>

\* speak_text without its `finally`: the flag is never cleared
speak_finally_missing == is_speaking' = is_speaking

\* the `finally` of speak_text
speak_finally == is_speaking' = FALSE

streaming(c) == IF c = H THEN hpc = "speak" ELSE apc = "speak"

\* the turn without its `finally`: is_processing is never reset
turn_finally_missing ==
    /\ hpc' = "wait"
    /\ UNCHANGED is_processing

\* the `finally` of the turn in handle_transcription, then back to `async for`
turn_finally ==
    /\ is_processing' = FALSE
    /\ hpc' = "wait"

\* the stream of c that is open in the log is closed with how it ended
Ended(log, c, how) ==
    [i \in DOMAIN log |->
        IF log[i].by = c /\ log[i].end = "open"
        THEN [log[i] EXCEPT !.end = how]
        ELSE log[i]]

\* speak_text whose failure reaches process_announcements and ends its loop
speak_return_consumer_ends(c, how) ==
    /\ speak_finally
    /\ spoken' = IF end_log THEN Ended(spoken, c, how) ELSE spoken
    /\ IF c = H
       THEN /\ turn_finally
            /\ trace' = Append(trace, "idle")
            /\ UNCHANGED <<user_transcript, wake, a_vars, turn, acc_at,
                   last_outcome>>
       ELSE /\ apc' = IF how \in {"done", "disconnected"} THEN "poll" ELSE "done"
            /\ UNCHANGED <<announcement, h_vars, is_processing, turn, trace,
                   acc_at, last_outcome>>
    /\ UNCHANGED <<fixed_vars, passed, enq_turn, precheck_raised, shut_vars>>
    /\ chunks' = [chunks EXCEPT ![c] = 0]
    /\ UNCHANGED <<now, stt_events, produced, dedup_vars, chat_history,
                   announcement_queue, sink, room_vars, calls, started,
                   enqueued>>

\* speak_text returns to its caller, which runs on to its next await; `how`
\* is the way the streaming ended
speak_return(c, how) ==
    /\ speak_finally
    /\ spoken' = IF end_log THEN Ended(spoken, c, how) ELSE spoken
    /\ IF c = H
       THEN /\ turn_finally
            /\ trace' = Append(trace, "idle")
            /\ UNCHANGED <<user_transcript, wake, a_vars, turn, acc_at,
                   last_outcome>>
       ELSE /\ apc' = "poll"
            /\ UNCHANGED <<announcement, h_vars, is_processing, turn, trace,
                   acc_at, last_outcome>>
    /\ UNCHANGED <<fixed_vars, passed, enq_turn, precheck_raised, shut_vars>>
    /\ chunks' = [chunks EXCEPT ![c] = 0]
    /\ UNCHANGED <<now, stt_events, produced, dedup_vars, chat_history,
                   announcement_queue, sink, room_vars, calls, started,
                   enqueued>>

\* the synthesizer yields a chunk, the room is connected, and the chunk is
\* empty or its frame is captured by the outbound source
speak_chunk(c) ==
    /\ streaming(c)
    /\ c \notin cancel_req
    /\ chunks[c] < MaxChunks
    /\ connected
    /\ chunks' = [chunks EXCEPT ![c] = @ + 1]
    /\ UNCHANGED <<now, stt_events, produced, dedup_vars, flag_vars,
                   chat_history, announcement_queue, sink, room_vars, h_vars,
                   a_vars, calls, started, enqueued, ghost_vars>>

\* the synthesizer yields a chunk and the room is found disconnected: break
speak_disconnected(c) ==
    /\ streaming(c)
    /\ c \notin cancel_req
    /\ chunks[c] < MaxChunks
    /\ ~connected
    /\ speak_return(c, "disconnected")

\* line 279: the errors of capture_frame, by the test applied to the message:
\* it names an invalid state, it names an RtcError, or neither
CaptureErrors == {"InvalidState", "RtcError", "other"}

\* lines 274-300: capture_frame raises; the error is logged as a warning
\* (invalid state, RTC error) or as an error (any other) and both branches
\* end with `break`
speak_capture_error(c, kind) ==
    /\ kind \in CaptureErrors
    /\ streaming(c)
    /\ c \notin cancel_req
    /\ chunks[c] < MaxChunks
    /\ connected
    /\ speak_return(c, kind)

\* the synthesis stream is exhausted
speak_done(c) ==
    /\ streaming(c)
    /\ c \notin cancel_req
    /\ speak_return(c, "done")

\* speak_text without its `except`: the synthesizer's error reaches the caller
speak_synth_error_raising(c) ==
    /\ streaming(c)
    /\ c \notin cancel_req
    /\ speak_finally
    /\ chunks' = [chunks EXCEPT ![c] = 0]
    /\ IF c = H
       THEN /\ send_transcript(Fallback, FALSE, H)
            /\ trace' = Append(trace, "error")
            /\ hpc' = "sent_error"
            /\ UNCHANGED apc
       ELSE /\ apc' = "poll"
            /\ UNCHANGED <<sink, trace, hpc>>
    /\ UNCHANGED <<now, stt_events, produced, dedup_vars, is_processing,
                   chat_history, announcement_queue, room_vars,
                   user_transcript, wake, announcement, calls, started,
                   enqueued, turn, acc_at, last_outcome, fixed_vars, log_vars,
                   shut_vars>>

\* lines 301-322: the synthesizer raises (quota / 429 or any other error); the
\* handler logs, the `finally` clears the flag and speak_text returns
speak_synth_error(c) ==
    /\ streaming(c)
    /\ c \notin cancel_req
    /\ speak_return(c, "synth_error")

\* --------------------------------------------------- handle_transcription
\* the dedup rule without its time window
Duplicate_no_window(e) == e.text = last_transcript

\* line 171: the event repeats the DedupWindow text inside the window
Duplicate(e) ==
    /\ e.text = last_transcript
    /\ now - last_transcript_time < DedupWindow

\* the gate without the speech flag
Gate_processing_only == is_processing

\* line 174: a turn is being processed or speech output is active
Gate == is_processing \/ is_speaking

\* the tests of handle_transcription without the one of the event type
Outcome_interim_accepted(e) ==
    IF IsBlank(e.text) THEN "blank"
    ELSE IF Duplicate(e) THEN "duplicate"
    ELSE IF Gate THEN "gated"
    ELSE "accept"

\* what handle_transcription does with event e at time `now`
Outcome(e) ==
    IF IsBlank(e.text) THEN "blank"
    ELSE IF Duplicate(e) THEN "duplicate"
    ELSE IF Gate THEN "gated"
    ELSE IF ~e.final THEN "interim"
    ELSE "accept"

\* a skipped event that still refreshes the DedupWindow
handle_ignore_refresh ==
    /\ hpc = "wait"
    /\ H \notin cancel_req
    /\ stt_events # <<>>
    /\ Outcome(Head(stt_events)) # "accept"
    /\ stt_events' = Tail(stt_events)
    /\ last_outcome' = Outcome(Head(stt_events))
    /\ last_transcript' = Head(stt_events).text
    /\ last_transcript_time' = now
    /\ UNCHANGED <<now, produced, flag_vars, chat_history,
                   announcement_queue, sink, room_vars, h_vars, a_vars,
                   chunks, calls, started, enqueued, turn, trace, acc_at,
                   fixed_vars, log_vars, shut_vars>>

\* the event is taken from the stream and skipped with `continue`
handle_ignore ==
    /\ hpc = "wait"
    /\ H \notin cancel_req
    /\ stt_events # <<>>
    /\ Outcome(Head(stt_events)) # "accept"
    /\ stt_events' = Tail(stt_events)
    /\ last_outcome' = Outcome(Head(stt_events))
    /\ UNCHANGED <<now, produced, dedup_vars, flag_vars, chat_history,
                   announcement_queue, sink, room_vars, h_vars, a_vars,
                   chunks, calls, started, enqueued, turn, trace, acc_at,
                   fixed_vars, log_vars, shut_vars>>

\* lines 180-184: the event starts a turn; runs up to `await send_transcript`
handle_accept ==
    /\ hpc = "wait"
    /\ H \notin cancel_req
    /\ stt_events # <<>>
    /\ LET e == Head(stt_events) IN
        /\ Outcome(e) = "accept"
        /\ stt_events' = Tail(stt_events)
        /\ is_processing' = TRUE
        /\ last_transcript' = e.text
        /\ last_transcript_time' = now
        /\ user_transcript' = e.text
        /\ turn' = turn + 1
        /\ acc_at' = e.at
        /\ sink' = Append(sink, [Transcript(e.text, TRUE, H) EXCEPT !.turn = turn + 1])
        /\ trace' = <<"user">>
        /\ last_outcome' = "accept"
        /\ hpc' = "sent_user"
    /\ UNCHANGED <<now, produced, is_speaking, chat_history,
                   announcement_queue, room_vars, wake, a_vars, chunks, calls,
                   started, enqueued, fixed_vars, log_vars, shut_vars>>

\* lines 186-188: history gets the user utterance, the pre-think sleep begins
handle_append_user ==
    /\ hpc = "sent_user"
    /\ H \notin cancel_req
    /\ chat_history' = Append(chat_history,
                              [role |-> "user", content |-> user_transcript])
    /\ wake' = now + PreThink
    /\ hpc' = "think"
    /\ UNCHANGED <<now, stt_events, produced, dedup_vars, flag_vars,
                   announcement_queue, sink, room_vars, user_transcript,
                   a_vars, chunks, calls, started, enqueued, ghost_vars>>

\* the whole history is handed over, the current utterance included
chat_history_arg_whole == chat_history

\* line 193: chat_history[:-1], the history without its last entry
chat_history_arg == SubSeq(chat_history, 1, Len(chat_history) - 1)

\* langchain_agent.py 836-842 and 856-862: the entries with role "user" and
\* "assistant" become HumanMessage and AIMessage, in order; others are left out
get_agent_response_history(h) ==
    LET kept == SelectSeq(h, LAMBDA m : m.role \in {"user", "assistant"})
    IN  [i \in 1..Len(kept) |->
            [message |-> IF kept[i].role = "user" THEN "HumanMessage"
                                                  ELSE "AIMessage",
             content |-> kept[i].content]]

\* get_agent_response called without the pre-think sleep
handle_call_no_delay ==
    /\ hpc = "think"
    /\ H \notin cancel_req
    /\ hpc' = "call"
    /\ wake' = 0
    /\ calls' = calls + 1
    /\ started' = started + 1
    /\ trace' = trace \o <<"delay", "call">>
    /\ passed' = get_agent_response_history(chat_history_arg)
    /\ UNCHANGED <<now, stt_events, produced, dedup_vars, flag_vars,
                   chat_history, announcement_queue, sink, room_vars,
                   user_transcript, a_vars, chunks, enqueued, turn, acc_at,
                   last_outcome, fixed_vars, spoken, enq_turn,
                   precheck_raised, shut_vars>>

\* lines 188-197: the sleep is over, get_agent_response is called
handle_call ==
    /\ hpc = "think"
    /\ H \notin cancel_req
    /\ now >= wake
    /\ hpc' = "call"
    /\ wake' = 0
    /\ calls' = calls + 1
    /\ started' = started + 1
    /\ trace' = trace \o <<"delay", "call">>
    /\ passed' = get_agent_response_history(chat_history_arg)
    /\ UNCHANGED <<now, stt_events, produced, dedup_vars, flag_vars,
                   chat_history, announcement_queue, sink, room_vars,
                   user_transcript, a_vars, chunks, enqueued, turn, acc_at,
                   last_outcome, fixed_vars, spoken, enq_turn,
                   precheck_raised, shut_vars>>

\* the callback waiting for a free slot of a queue that holds one item and
\* takes none once cleanup has emptied it
announce_tool_usage_blocking ==
    /\ hpc = "call"
    /\ H \notin cancel_req
    /\ enqueued < limit.anns
    /\ announcement_queue = <<>>
    /\ fx.drain = 0
    /\ enqueued' = enqueued + 1
    /\ announcement_queue' = Append(announcement_queue, AnnTexts[enqueued + 1])
    /\ enq_turn' = IF speech_log THEN Append(enq_turn, turn) ELSE enq_turn
    /\ UNCHANGED <<now, stt_events, produced, dedup_vars, flag_vars,
                   chat_history, sink, room_vars, h_vars, a_vars, chunks,
                   calls, started, turn, trace, acc_at, last_outcome,
                   fixed_vars, passed, spoken,
                   precheck_raised, shut_vars>>

\* lines 49-54: the Reasoner's tool callback enqueues a narration with
\* put_nowait on the unbounded queue and returns
announce_tool_usage ==
    /\ hpc = "call"
    /\ H \notin cancel_req
    /\ enqueued < limit.anns
    /\ enqueued' = enqueued + 1
    /\ announcement_queue' = Append(announcement_queue, AnnTexts[enqueued + 1])
    /\ enq_turn' = IF speech_log THEN Append(enq_turn, turn) ELSE enq_turn
    /\ UNCHANGED <<now, stt_events, produced, dedup_vars, flag_vars,
                   chat_history, sink, room_vars, h_vars, a_vars, chunks,
                   calls, started, turn, trace, acc_at, last_outcome,
                   fixed_vars, passed, spoken,
                   precheck_raised, shut_vars>>

\* lines 191-199: the Reasoner returns; runs up to `await send_transcript`
reasoner_return ==
    /\ hpc = "call"
    /\ H \notin cancel_req
    /\ calls' = calls - 1
    /\ send_transcript(Reply, FALSE, H)
    /\ trace' = Append(trace, "assistant")
    /\ hpc' = "sent_reply"
    /\ UNCHANGED <<now, stt_events, produced, dedup_vars, flag_vars,
                   chat_history, announcement_queue, room_vars,
                   user_transcript, wake, a_vars, chunks, started, enqueued,
                   turn, acc_at,
                   last_outcome, fixed_vars, log_vars, shut_vars>>

\* the Reasoner is called again when it raises
reasoner_raise_retry ==
    /\ hpc = "call"
    /\ H \notin cancel_req
    /\ started < 3
    /\ started' = started + 1
    /\ UNCHANGED <<now, stt_events, produced, dedup_vars, flag_vars,
                   chat_history, announcement_queue, sink, room_vars, h_vars,
                   a_vars, chunks, calls, enqueued, ghost_vars>>

\* the failed attempt is recorded in history
reasoner_raise_recorded ==
    /\ hpc = "call"
    /\ H \notin cancel_req
    /\ calls' = calls - 1
    /\ send_transcript(Fallback, FALSE, H)
    /\ chat_history' = Append(chat_history,
                              [role |-> "assistant", content |-> Fallback])
    /\ trace' = Append(trace, "fallback")
    /\ hpc' = "sent_error"
    /\ UNCHANGED <<now, stt_events, produced, dedup_vars, flag_vars,
                   announcement_queue, room_vars, user_transcript, wake,
                   a_vars, chunks, started, enqueued, turn, acc_at,
                   last_outcome, fixed_vars, log_vars, shut_vars>>

\* lines 205-209: the Reasoner raises; runs up to `await send_transcript`
reasoner_raise ==
    /\ hpc = "call"
    /\ H \notin cancel_req
    /\ calls' = calls - 1
    /\ send_transcript(Fallback, FALSE, H)
    /\ trace' = Append(trace, "fallback")
    /\ hpc' = "sent_error"
    /\ UNCHANGED <<now, stt_events, produced, dedup_vars, flag_vars,
                   chat_history, announcement_queue, room_vars,
                   user_transcript, wake, a_vars, chunks, started, enqueued,
                   turn, acc_at,
                   last_outcome, fixed_vars, log_vars, shut_vars>>

\* the reply is stored over the last entry of the history
handle_reply_sent_replacing ==
    /\ hpc = "sent_reply"
    /\ H \notin cancel_req
    /\ chat_history' = [chat_history EXCEPT ![Len(chat_history)] =
                            [role |-> "assistant", content |-> Reply]]
    /\ speak_enter(H, Reply)
    /\ IF precheck
       THEN /\ hpc' = "speak"
            /\ trace' = Append(trace, "speak")
            /\ UNCHANGED is_processing
       ELSE /\ turn_finally
            /\ trace' = trace \o <<"speak", "idle">>
    /\ UNCHANGED <<now, stt_events, produced, dedup_vars, announcement_queue,
                   sink, room_vars, user_transcript, wake, a_vars, calls,
                   started, enqueued, turn, acc_at, last_outcome, fixed_vars,
                   passed, enq_turn,
                   precheck_raised, shut_vars>>

\* lines 201-203: history gets the reply, speak_text is entered
handle_reply_sent ==
    /\ hpc = "sent_reply"
    /\ H \notin cancel_req
    /\ chat_history' = Append(chat_history,
                              [role |-> "assistant", content |-> Reply])
    /\ speak_enter(H, Reply)
    /\ IF precheck
       THEN /\ hpc' = "speak"
            /\ trace' = Append(trace, "speak")
            /\ UNCHANGED is_processing
       ELSE /\ turn_finally
            /\ trace' = trace \o <<"speak", "idle">>
    /\ UNCHANGED <<now, stt_events, produced, dedup_vars, announcement_queue,
                   sink, room_vars, user_transcript, wake, a_vars, calls,
                   started, enqueued, turn, acc_at, last_outcome, fixed_vars,
                   passed, enq_turn,
                   precheck_raised, shut_vars>>

\* lines 209-211: the fallback was sent; `finally`, then back to `async for`
handle_error_sent ==
    /\ hpc = "sent_error"
    /\ H \notin cancel_req
    /\ turn_finally
    /\ trace' = Append(trace, "idle")
    /\ UNCHANGED <<now, stt_events, produced, dedup_vars, is_speaking,
                   chat_history, announcement_queue, sink, room_vars,
                   user_transcript, wake, a_vars, chunks, calls, started,
                   enqueued, turn, acc_at,
                   last_outcome, fixed_vars, log_vars, shut_vars>>

\* -------------------------------------------------- process_announcements
\* the narration enqueued last is dequeued first
announcement_get_last ==
    /\ apc = "poll"
    /\ A \notin cancel_req
    /\ announcement_queue # <<>>
    /\ announcement' = announcement_queue[Len(announcement_queue)]
    /\ announcement_queue' =
            SubSeq(announcement_queue, 1, Len(announcement_queue) - 1)
    /\ send_transcript(announcement_queue[Len(announcement_queue)], FALSE, A)
    /\ apc' = "sent"
    /\ UNCHANGED <<now, stt_events, produced, dedup_vars, flag_vars,
                   chat_history, room_vars, h_vars, chunks, calls, started,
                   enqueued, ghost_vars>>

\* lines 149-150: a narration is dequeued and sent to the transcript sink
announcement_get ==
    /\ apc = "poll"
    /\ A \notin cancel_req
    /\ announcement_queue # <<>>
    /\ announcement' = Head(announcement_queue)
    /\ announcement_queue' = Tail(announcement_queue)
    /\ send_transcript(Head(announcement_queue), FALSE, A)
    /\ apc' = "sent"
    /\ UNCHANGED <<now, stt_events, produced, dedup_vars, flag_vars,
                   chat_history, room_vars, h_vars, chunks, calls, started,
                   enqueued, ghost_vars>>

\* line 151: speak_text is entered for the narration
announcement_speak ==
    /\ apc = "sent"
    /\ A \notin cancel_req
    /\ speak_enter(A, announcement)
    /\ apc' = IF precheck THEN "speak" ELSE "poll"
    /\ UNCHANGED <<now, stt_events, produced, dedup_vars, is_processing,
                   chat_history, announcement_queue, sink, room_vars, h_vars,
                   announcement, calls, started, enqueued, turn, trace, acc_at,
                   last_outcome, fixed_vars, passed, enq_turn,
                   precheck_raised, shut_vars>>

\* ------------------------------------------------------------ the session
Next ==
    \/ Tick
    \/ \E e \in limit.kinds : recognizer_event(e.text, e.final)
    \/ room_disconnect
    \/ track_unpublish
    \/ handle_ignore
    \/ handle_accept
    \/ handle_append_user
    \/ handle_call
    \/ announce_tool_usage
    \/ reasoner_return
    \/ reasoner_raise
    \/ handle_reply_sent
    \/ handle_error_sent
    \/ announcement_get
    \/ announcement_speak
    \/ \E c \in Callers : speak_chunk(c)
    \/ \E c \in Callers : speak_disconnected(c)
    \/ \E c \in Callers, kind \in CaptureErrors : speak_capture_error(c, kind)
    \/ \E c \in Callers : speak_done(c)
    \/ \E c \in Callers : speak_synth_error(c)

Spec == Init /\ [][Next]_vars

\* one turn whose Reasoner call narrates more than one tool
AnnLimits ==
    [time |-> PreThink, events |-> MaxEvents - 1, anns |-> MaxAnn + 1,
     kinds |-> Events]

InitAnn ==
    /\ SessionStart
    /\ stamps = FALSE
    /\ speech_log = TRUE
    /\ end_log = FALSE
    /\ limit = AnnLimits

SpecAnn == InitAnn /\ [][Next]_vars

SpecStamped == InitStamped /\ [][Next]_vars

\* two turns with the speech log kept: how a turn goes on after each way its
\* reply can end
SpeechLimits ==
    [time |-> PreThink, events |-> MaxEvents, anns |-> MaxAnn, kinds |-> Events]

InitSpeech ==
    /\ SessionStart
    /\ stamps = FALSE
    /\ speech_log = TRUE
    /\ end_log = TRUE
    /\ limit = SpeechLimits

SpecSpeech == InitSpeech /\ [][Next]_vars

\* ------------------------------------------------- the Reasoner's tools
\* the tools whose calls the handler narrates
KnownTools == {"retrieve_travel_info", "get_flight_prices", "search_places"}

\* langchain_agent.py 343-444: the lookup tools
create_tools == {"get_flight_prices", "search_places"}

\* langchain_agent.py 736-824: what create_paradise_agent builds: an
\* AgentExecutor or a plain chain, its tools, and whether its callback handler
\* was given the announcement callback
create_paradise_agent(rag, lookups) ==
    LET tools == IF lookups THEN create_tools ELSE {} IN
    IF rag
    THEN [executor |-> TRUE, tools |-> {"retrieve_travel_info"} \cup tools,
          callback |-> TRUE]
    ELSE IF lookups /\ tools # {}
         THEN [executor |-> TRUE, tools |-> tools, callback |-> FALSE]
         ELSE [executor |-> FALSE, tools |-> {}, callback |-> FALSE]

\* basic_agent.py 56
agent_chain == create_paradise_agent(use_rag, use_tools)

\* langchain_agent.py 63-76: the narration the handler builds for a tool
Narration(tool) ==
    CASE tool = "retrieve_travel_info" ->
             "Let me check my travel archives for information about q..."
      [] tool = "get_flight_prices" ->
             "Let me look up flight prices from d to a for you..."
      [] tool = "search_places" ->
             "Let me search for some great q for you..."
      [] OTHER -> NoneText

\* langchain_agent.py 60-83 with basic_agent.py 49-54: the Reasoner begins a
\* call of one of its tools; the handler builds the narration and hands it to
\* the announcement callback when it was given one
on_agent_action(tool) ==
    /\ hpc = "call"
    /\ H \notin cancel_req
    /\ agent_chain.executor
    /\ tool \in agent_chain.tools
    /\ tool_calls < limit.anns
    /\ tool_calls' = tool_calls + 1
    /\ IF Narration(tool) # NoneText /\ agent_chain.callback
       THEN /\ enqueued' = enqueued + 1
            /\ announcement_queue' =
                   Append(announcement_queue, Narration(tool))
            /\ enq_turn' = IF speech_log THEN Append(enq_turn, turn)
                                         ELSE enq_turn
       ELSE UNCHANGED <<enqueued, announcement_queue, enq_turn>>
    /\ UNCHANGED <<now, stt_events, produced, dedup_vars, flag_vars,
                   chat_history, sink, room_vars, h_vars, a_vars, chunks,
                   calls, started, turn, trace, acc_at, last_outcome,
                   config_vars, startup_vars, ingest_vars, use_rag, use_tools,
                   passed, spoken, precheck_raised, shut_vars>>

\* one turn of a session in each configuration of RAG and lookup tools
NextTools ==
    \/ Tick
    \/ \E e \in limit.kinds : recognizer_event(e.text, e.final)
    \/ handle_ignore
    \/ handle_accept
    \/ handle_append_user
    \/ handle_call
    \/ \E tool \in KnownTools : on_agent_action(tool)
    \/ reasoner_return
    \/ reasoner_raise
    \/ handle_reply_sent
    \/ handle_error_sent
    \/ announcement_get
    \/ announcement_speak
    \/ \E c \in Callers : speak_chunk(c)
    \/ \E c \in Callers : speak_done(c)

ToolLimits ==
    [time |-> PreThink, events |-> MaxEvents - 1, anns |-> MaxAnn + 1,
     kinds |-> {e \in Events : e.text = "hello"}]

InitTools ==
    /\ TasksCreated
    /\ use_rag \in BOOLEAN
    /\ use_tools \in BOOLEAN
    /\ stamps = FALSE
    /\ speech_log = FALSE
    /\ end_log = FALSE
    /\ limit = ToolLimits

SpecTools == InitTools /\ [][NextTools]_vars

\* the announcement session with the way each stream ended logged and the
\* recognizer's events limited to one spelling
InitAnnEnds ==
    /\ SessionStart
    /\ stamps = FALSE
    /\ speech_log = TRUE
    /\ end_log = TRUE
    /\ limit = ToolLimits

SpecAnnEnds == InitAnnEnds /\ [][Next]_vars

\* ------------------------------------------------- the start of a session
\* what the start-up leaves alone until the tasks are created
session_state == <<now, stt_events, produced, dedup_vars, flag_vars,
                   chat_history, announcement_queue, room_vars,
                   user_transcript, wake, announcement, chunks, calls,
                   started, enqueued, turn, trace, acc_at, last_outcome,
                   config_vars, ingest_vars, tools_vars, log_vars,
                   shutdown_event, cleanup_done, cancel_req, stt_input_ended,
                   fx>>

\* no task exists and nothing was sent
Unstarted ==
    /\ sink = <<>>
    /\ tpc = "none"
    /\ hpc = "none"
    /\ apc = "none"
    /\ dpc = "none"

\* the participant publishes or unpublishes its microphone
inbound_track_change ==
    /\ spc \in {"scan", "sleep"}
    /\ inbound' = ~inbound
    /\ UNCHANGED <<session_state, sink, hpc, apc, tpc, dpc, epc, spc, attempts,
                   waited, user_audio_track>>

\* lines 82-94: the publications are looked through once; without an audio
\* track wait_for_audio_track is entered and sleeps
discover_scan ==
    /\ spc = "scan"
    /\ IF inbound
       THEN /\ user_audio_track' = TRUE
            /\ spc' = "found"
       ELSE /\ spc' = "sleep"
            /\ UNCHANGED user_audio_track
    /\ UNCHANGED <<session_state, sink, hpc, apc, tpc, dpc, epc, attempts,
                   waited, inbound>>

\* the polling loop with the test `attempts <= max_attempts`
discover_poll_one_more ==
    /\ spc = "sleep"
    /\ attempts' = attempts + 1
    /\ waited' = waited + PollInterval
    /\ IF inbound
       THEN /\ user_audio_track' = TRUE
            /\ spc' = "found"
       ELSE /\ spc' = IF attempts' <= MaxAttempts THEN "sleep" ELSE "failed"
            /\ UNCHANGED user_audio_track
    /\ UNCHANGED <<session_state, sink, hpc, apc, tpc, dpc, epc, inbound>>

\* lines 94-103: the sleep of 0.1 s is over, the attempt is counted and the
\* publications are looked through; a track ends the polling, and after
\* max_attempts polls without one the RuntimeError leaves the entrypoint
discover_poll ==
    /\ spc = "sleep"
    /\ attempts' = attempts + 1
    /\ waited' = waited + PollInterval
    /\ IF inbound
       THEN /\ user_audio_track' = TRUE
            /\ spc' = "found"
       ELSE /\ spc' = IF attempts' < MaxAttempts THEN "sleep" ELSE "failed"
            /\ UNCHANGED user_audio_track
    /\ UNCHANGED <<session_state, sink, hpc, apc, tpc, dpc, epc, inbound>>

\* lines 105-458: with the track the audio stream is opened, the greeting is
\* sent and spoken and the four tasks are created
session_start ==
    /\ spc = "found"
    /\ sink' = GreetingSent
    /\ hpc' = "wait"
    /\ apc' = "poll"
    /\ tpc' = "run"
    /\ dpc' = "watch"
    /\ epc' = "wait"
    /\ spc' = "started"
    /\ UNCHANGED <<session_state, attempts, waited, inbound, user_audio_track>>

NextStartup ==
    \/ inbound_track_change
    \/ discover_scan
    \/ discover_poll
    \/ session_start

\* before the look for the inbound track: the participant may or may not
\* have published it
InitStartup ==
    /\ Created
    /\ Unstarted
    /\ epc = "start"
    /\ spc = "scan"
    /\ attempts = 0
    /\ waited = 0
    /\ inbound \in BOOLEAN
    /\ user_audio_track = FALSE
    /\ use_rag = TRUE
    /\ use_tools = TRUE
    /\ stamps = FALSE
    /\ speech_log = FALSE
    /\ end_log = FALSE
    /\ limit = Limits

SpecStartup == InitStartup /\ [][NextStartup]_vars

\* ------------------------------------------------------ the ingest loop
\* event.frame of an event without a payload
NoFrame == "None"

\* the inbound audio events: two different frames, and an event without one
AudioEvents == {[frame |-> "f1"], [frame |-> "f2"], [frame |-> NoFrame]}

\* what the ingest loop leaves alone
ingest_rest == <<now, stt_events, produced, dedup_vars, flag_vars,
                 chat_history, announcement_queue, sink, room_vars, h_vars,
                 a_vars, chunks, calls, started, enqueued, turn, trace,
                 acc_at, last_outcome, config_vars, startup_vars, tools_vars,
                 log_vars, shutdown_event, cleanup_done, dpc, epc, cancel_req,
                 stt_input_ended, fx>>

\* the room delivers an audio event of the participant's track
audio_event(e) ==
    /\ Len(audio_in) + Len(audio_stream) < MaxAudio
    /\ audio_stream' = Append(audio_stream, e)
    /\ UNCHANGED <<ingest_rest, tpc, audio_in, stt_frames, push_raised>>

\* the ingest loop without the test for a payload
transcribe_audio_frame_no_skip ==
    /\ tpc = "run"
    /\ T \notin cancel_req
    /\ audio_stream # <<>>
    /\ audio_stream' = Tail(audio_stream)
    /\ audio_in' = Append(audio_in, Head(audio_stream))
    /\ stt_frames' = Append(stt_frames, Head(audio_stream).frame)
    /\ UNCHANGED <<ingest_rest, tpc, push_raised>>

\* lines 126-134: one round of `async for`: the event is taken, skipped when
\* it has no frame, and its frame is pushed to the recognizer otherwise
transcribe_audio_frame ==
    /\ tpc = "run"
    /\ T \notin cancel_req
    /\ audio_stream # <<>>
    /\ audio_stream' = Tail(audio_stream)
    /\ audio_in' = Append(audio_in, Head(audio_stream))
    /\ stt_frames' = IF Head(audio_stream).frame = NoFrame
                     THEN stt_frames
                     ELSE Append(stt_frames, Head(audio_stream).frame)
    /\ UNCHANGED <<ingest_rest, tpc, push_raised>>

\* lines 134-137: push_frame raises (the recognizer failed, or its input was
\* ended); the error is printed and the task ends
transcribe_audio_push_error ==
    /\ tpc = "run"
    /\ T \notin cancel_req
    /\ audio_stream # <<>>
    /\ Head(audio_stream).frame # NoFrame
    /\ audio_stream' = Tail(audio_stream)
    /\ audio_in' = Append(audio_in, Head(audio_stream))
    /\ push_raised' = TRUE
    /\ tpc' = "done"
    /\ UNCHANGED <<ingest_rest, stt_frames>>

\* ------------------------------------------------- the end of a session
\* what the session actions leave alone
turn_state == <<now, stt_events, produced, dedup_vars, chat_history, sink,
                room_vars, user_transcript, wake, announcement, started,
                enqueued, turn, trace, acc_at, last_outcome, fixed_vars,
                log_vars>>

\* cleanup_resources is invoked
Called(f) == [f EXCEPT !.calls = @ + 1]

\* lines 344-357: the guard is set, the recognizer gets end_input() and the
\* close is awaited
Entered(f) == [f EXCEPT !.entered = @ + 1, !.end_input = @ + 1,
                        !.aclose = @ + 1]

\* lines 357-362: how the awaited close of the recognizer ends: it returns,
\* wait_for gives up after 5 s, or it raises
CloseOutcomes == {"closed", "timeout", "error"}

\* a failed close that leaves cleanup_resources: nothing after it runs
Finished_raising(f, how) ==
    IF how = "closed"
    THEN [f EXCEPT !.closed = @ + 1, !.stop = @ + 1, !.drain = @ + 1]
    ELSE [f EXCEPT !.closed = @ + 1, !.failed = @ + 1]

\* lines 358-404: the close returned, timed out or failed (both handlers only
\* log); the track is stopped and the announcement queue is emptied
Finished(f, how) ==
    [f EXCEPT !.closed = @ + 1, !.stop = @ + 1, !.drain = @ + 1,
              !.failed = IF how = "closed" THEN @ ELSE @ + 1]

\* cleanup_resources without its guard
already_cleaned_never == FALSE

\* line 343
already_cleaned == cleanup_done

\* lines 409-412: SIGINT or SIGTERM arrives
signal_handler ==
    /\ epc # "done"
    /\ ~shutdown_event
    /\ shutdown_event' = TRUE
    /\ UNCHANGED <<turn_state, flag_vars, announcement_queue, hpc, apc, calls,
                   chunks, cleanup_done, task_vars, stt_input_ended, fx>>

\* lines 122-137: the audio stream ends, or raises and the error is printed
transcribe_audio_end ==
    /\ tpc = "run"
    /\ T \notin cancel_req
    /\ tpc' = "done"
    /\ UNCHANGED <<turn_state, flag_vars, announcement_queue, hpc, apc, calls,
                   chunks, shutdown_event, cleanup_done, dpc, epc, cancel_req,
                   stt_input_ended, fx>>

\* line 162: the recognizer stream is exhausted after end_input()
handle_stream_end ==
    /\ hpc = "wait"
    /\ H \notin cancel_req
    /\ stt_input_ended
    /\ stt_events = <<>>
    /\ hpc' = "done"
    /\ UNCHANGED <<turn_state, flag_vars, announcement_queue, apc, calls,
                   chunks, shut_vars>>

\* lines 212-216: the recognizer stream raises; both flags are reset
handle_stream_error ==
    /\ hpc = "wait"
    /\ H \notin cancel_req
    /\ is_processing' = FALSE
    /\ is_speaking' = FALSE
    /\ hpc' = "done"
    /\ UNCHANGED <<turn_state, announcement_queue, apc, calls, chunks,
                   shut_vars>>

\* lines 221-242: is_speaking is set and the lookup of the publication raises
\* before the `try` of speak_text is entered; the caller's handler runs
speak_precheck_error(c) ==
    /\ c \notin cancel_req
    /\ connected
    /\ is_speaking' = TRUE
    /\ precheck_raised' = TRUE
    /\ IF c = H
       THEN /\ hpc = "sent_reply"
            /\ chat_history' = Append(chat_history,
                                      [role |-> "assistant", content |-> Reply])
            /\ send_transcript(Fallback, FALSE, H)
            /\ trace' = trace \o <<"speak", "error">>
            /\ hpc' = "sent_error"
            /\ UNCHANGED apc
       ELSE /\ apc = "sent"
            /\ apc' = "poll"
            /\ UNCHANGED <<chat_history, sink, trace, hpc>>
    /\ UNCHANGED <<now, stt_events, produced, dedup_vars, is_processing,
                   announcement_queue, room_vars, user_transcript, wake,
                   announcement, chunks, calls, started, enqueued, turn,
                   acc_at, last_outcome, fixed_vars, passed, spoken, enq_turn,
                   shut_vars>>

\* CancelledError reaches transcribe_audio
cancel_transcribe ==
    /\ T \in cancel_req
    /\ tpc' = "done"
    /\ cancel_req' = cancel_req \ {T}
    /\ UNCHANGED <<turn_state, flag_vars, announcement_queue, hpc, apc, calls,
                   chunks, shutdown_event, cleanup_done, dpc, epc,
                   stt_input_ended, fx>>

\* CancelledError reaches handle_transcription at its current await: the
\* `finally` blocks around that await run (lines 210-211, 321-322), the
\* `except Exception` handlers do not
cancel_handle ==
    /\ H \in cancel_req
    /\ hpc' = "done"
    /\ cancel_req' = cancel_req \ {H}
    /\ is_processing' = IF hpc \in {"call", "sent_reply", "sent_error", "speak"}
                        THEN FALSE ELSE is_processing
    /\ is_speaking' = IF hpc = "speak" THEN FALSE ELSE is_speaking
    /\ calls' = IF hpc = "call" THEN calls - 1 ELSE calls
    /\ chunks' = [chunks EXCEPT ![H] = 0]
    /\ UNCHANGED <<turn_state, announcement_queue, apc, shutdown_event,
                   cleanup_done, tpc, dpc, epc, stt_input_ended, fx>>

\* CancelledError reaches process_announcements (lines 146-155, 321-322)
cancel_announcements ==
    /\ A \in cancel_req
    /\ apc' = "done"
    /\ cancel_req' = cancel_req \ {A}
    /\ is_speaking' = IF apc = "speak" THEN FALSE ELSE is_speaking
    /\ chunks' = [chunks EXCEPT ![A] = 0]
    /\ UNCHANGED <<turn_state, is_processing, announcement_queue, hpc, calls,
                   shutdown_event, cleanup_done, tpc, dpc, epc,
                   stt_input_ended, fx>>

\* lines 440-441 with 340-357: the `finally` of wait_for_disconnect invokes
\* cleanup_resources, which returns at once or runs up to the await of aclose
disconnect_finally ==
    /\ IF already_cleaned
       THEN /\ fx' = Called(fx)
            /\ dpc' = "shutdown"
            /\ UNCHANGED <<cleanup_done, stt_input_ended>>
       ELSE /\ fx' = Entered(Called(fx))
            /\ cleanup_done' = TRUE
            /\ stt_input_ended' = TRUE
            /\ dpc' = "cleanup"
    /\ UNCHANGED <<turn_state, flag_vars, announcement_queue, hpc, apc, calls,
                   chunks, shutdown_event, tpc, epc>>

\* lines 427-441: the poll finds the room disconnected or the shutdown event
\* set, and the loop is left
disconnect_exit ==
    /\ dpc = "watch"
    /\ D \notin cancel_req
    /\ ~connected \/ shutdown_event
    /\ disconnect_finally
    /\ UNCHANGED cancel_req

\* lines 358-446: cleanup runs on after the close; ctx.shutdown is called
disconnect_cleanup_finish ==
    /\ dpc = "cleanup"
    /\ D \notin cancel_req
    /\ \E how \in CloseOutcomes : fx' = Finished(fx, how)
    /\ announcement_queue' = <<>>
    /\ dpc' = "shutdown"
    /\ UNCHANGED <<turn_state, flag_vars, hpc, apc, calls, chunks,
                   shutdown_event, cleanup_done, tpc, epc, cancel_req,
                   stt_input_ended>>

\* lines 446-449: ctx.shutdown returned or raised
disconnect_done ==
    /\ dpc = "shutdown"
    /\ D \notin cancel_req
    /\ dpc' = "done"
    /\ UNCHANGED <<turn_state, flag_vars, announcement_queue, hpc, apc, calls,
                   chunks, shutdown_event, cleanup_done, tpc, epc, cancel_req,
                   stt_input_ended, fx>>

\* CancelledError reaches wait_for_disconnect: in the loop it leads into the
\* `finally`; inside cleanup_resources (await of aclose, line 357) and inside
\* ctx.shutdown no handler catches it and the task ends there
cancel_disconnect ==
    /\ D \in cancel_req
    /\ dpc # "done"
    /\ cancel_req' = cancel_req \ {D}
    /\ IF dpc = "watch"
       THEN disconnect_finally
       ELSE /\ dpc' = "done"
            /\ UNCHANGED <<turn_state, flag_vars, announcement_queue, hpc,
                           apc, calls, chunks, shutdown_event, cleanup_done,
                           tpc, epc, stt_input_ended, fx>>

\* the entrypoint's `finally` without its call of cleanup_resources
entrypoint_finally_no_cleanup(f) ==
    /\ cancel_req' = cancel_req \cup Running
    /\ fx' = f
    /\ epc' = "done"
    /\ UNCHANGED <<cleanup_done, stt_input_ended>>

\* the entrypoint's `finally` without its loop of task.cancel()
entrypoint_finally_no_cancel(f) ==
    /\ cancel_req' = cancel_req
    /\ IF already_cleaned
       THEN /\ fx' = Called(f)
            /\ epc' = "done"
            /\ UNCHANGED <<cleanup_done, stt_input_ended>>
       ELSE /\ fx' = Entered(Called(f))
            /\ cleanup_done' = TRUE
            /\ stt_input_ended' = TRUE
            /\ epc' = "cleanup"

\* lines 496-501: every task not done is cancelled (and not awaited), then
\* cleanup_resources is invoked; f is fx as this step has changed it so far
entrypoint_finally(f) ==
    /\ cancel_req' = cancel_req \cup Running
    /\ IF already_cleaned
       THEN /\ fx' = Called(f)
            /\ epc' = "done"
            /\ UNCHANGED <<cleanup_done, stt_input_ended>>
       ELSE /\ fx' = Entered(Called(f))
            /\ cleanup_done' = TRUE
            /\ stt_input_ended' = TRUE
            /\ epc' = "cleanup"

\* lines 461-475 and 496-501: asyncio.wait returns when a task is done
entrypoint_wait_return ==
    /\ epc = "wait"
    /\ Running # Tasks
    /\ IF shutdown_event /\ Running # {}
       THEN /\ cancel_req' = cancel_req \cup Running
            /\ epc' = "gather"
            /\ UNCHANGED <<cleanup_done, stt_input_ended, fx>>
       ELSE entrypoint_finally(fx)
    /\ UNCHANGED <<turn_state, flag_vars, announcement_queue, hpc, apc, calls,
                   chunks, shutdown_event, tpc, dpc>>

\* lines 474-475 and 496-501: every pending task has ended
entrypoint_gather_return ==
    /\ epc = "gather"
    /\ Running = {}
    /\ entrypoint_finally(fx)
    /\ UNCHANGED <<turn_state, flag_vars, announcement_queue, hpc, apc, calls,
                   chunks, shutdown_event, tpc, dpc>>

\* lines 358-404: the cleanup the entrypoint runs goes on after the close; in
\* the CancelledError handler the `finally` follows
entrypoint_cleanup_finish ==
    /\ epc \in {"cleanup", "cleanup_exc"}
    /\ announcement_queue' = <<>>
    /\ \E how \in CloseOutcomes :
          IF epc = "cleanup"
          THEN /\ fx' = Finished(fx, how)
               /\ epc' = "done"
               /\ UNCHANGED <<cleanup_done, stt_input_ended, cancel_req>>
          ELSE entrypoint_finally(Finished(fx, how))
    /\ UNCHANGED <<turn_state, flag_vars, hpc, apc, calls, chunks,
                   shutdown_event, tpc, dpc>>

\* lines 477-479 and 496-501: the entrypoint itself is cancelled at its await
entrypoint_cancelled ==
    /\ epc # "done"
    /\ CASE epc \in {"wait", "gather"} ->
              IF already_cleaned
              THEN entrypoint_finally(Called(fx))
              ELSE /\ fx' = Entered(Called(fx))
                   /\ cleanup_done' = TRUE
                   /\ stt_input_ended' = TRUE
                   /\ epc' = "cleanup_exc"
                   /\ UNCHANGED cancel_req
         [] epc = "cleanup_exc" -> entrypoint_finally(fx)
         [] epc = "cleanup" ->
              /\ epc' = "done"
              /\ UNCHANGED <<cleanup_done, stt_input_ended, fx, cancel_req>>
    /\ UNCHANGED <<turn_state, flag_vars, announcement_queue, hpc, apc, calls,
                   chunks, shutdown_event, tpc, dpc>>

NextSession ==
    \/ Next
    \/ signal_handler
    \/ transcribe_audio_end
    \/ handle_stream_end
    \/ handle_stream_error
    \/ \E c \in Callers : speak_precheck_error(c)
    \/ cancel_transcribe
    \/ cancel_handle
    \/ cancel_announcements
    \/ cancel_disconnect
    \/ disconnect_exit
    \/ disconnect_cleanup_finish
    \/ disconnect_done
    \/ entrypoint_wait_return
    \/ entrypoint_gather_return
    \/ entrypoint_cleanup_finish
    \/ entrypoint_cancelled

\* one short turn, and everything that can end the session; what the caller
\* says (one text, interim or final) makes no difference to how it ends
SessionLimits ==
    [time |-> PreThink, events |-> MaxEvents - 1, anns |-> MaxAnn,
     kinds |-> {e \in Events : e.text = "hello"}]

InitSession ==
    /\ SessionStart
    /\ stamps = FALSE
    /\ speech_log = FALSE
    /\ end_log = FALSE
    /\ limit = SessionLimits

SpecSession == InitSession /\ [][NextSession]_vars

\* the ingest task alone: audio events arrive, are taken and pushed until the
\* stream ends or a push fails
NextIngest ==
    \/ \E e \in AudioEvents : audio_event(e)
    \/ transcribe_audio_frame
    \/ transcribe_audio_push_error
    \/ transcribe_audio_end

SpecIngest == Init /\ [][NextIngest]_vars

\* ================================================================ claims
InTurn == hpc # "wait"

\* the transcription task takes the next recognizer event in this step
Evaluates ==
    /\ hpc = "wait"
    /\ stt_events # <<>>
    /\ stt_events' = Tail(stt_events)

\* the step starts no turn and leaves the session as it was
NothingStarted ==
    /\ hpc' = "wait"
    /\ UNCHANGED <<sink, chat_history, dedup_vars, flag_vars, calls, started,
                   turn>>

IsPrefix(p, q) == Len(p) <= Len(q) /\ SubSeq(q, 1, Len(p)) = p

SuccessOrder == <<"user", "delay", "call", "assistant", "speak", "idle">>
FailureOrder == <<"user", "delay", "call", "fallback", "idle">>

\* the assistant events the transcription task emitted in the current turn
TurnReplies ==
    {i \in DOMAIN sink : sink[i].turn = turn /\ sink[i].by = H /\ ~sink[i].is_user}

\* C1: a speak_text invocation of the announcement consumer and one of the
\* transcription task are never streaming at the same time.
C1_OneSynthesisStream == ~(streaming(H) /\ streaming(A))

\* C2: a final event with the text of the event that started the last turn,
\* produced less than 1 s (two steps) after it, starts no turn and emits
\* nothing, whenever it is evaluated.
C2_DoubleFireSuppressed ==
    [][(/\ Evaluates
        /\ turn > 0
        /\ Head(stt_events).final
        /\ Head(stt_events).text = last_transcript
        /\ Head(stt_events).at - acc_at < 2)
       => NothingStarted]_vars

\* C3: an event with the DedupWindow text evaluated less than 2.0 s after the
\* DedupWindow timestamp emits nothing, calls nothing, appends nothing and
\* does not set is_processing; a final one evaluated 2.0 s or more after it,
\* with the gate open, starts a turn.
C3_DedupRule ==
    [][Evaluates =>
        LET e == Head(stt_events) IN
        /\ (e.text = last_transcript /\ now - last_transcript_time < DedupWindow)
              => NothingStarted
        /\ (/\ e.text = last_transcript
            /\ now - last_transcript_time >= DedupWindow
            /\ e.final /\ ~is_processing /\ ~is_speaking)
              => (/\ is_processing'
                  /\ last_transcript_time' = now
                  /\ sink' = Append(sink, [type |-> "transcript", text |-> e.text,
                                           is_user |-> TRUE, by |-> H,
                                           turn |-> turn + 1]))]_vars

C3_Witness == last_outcome = "duplicate" /\ hpc = "wait" /\ turn > 0

C5_SingleTurnInFlight ==
    /\ [](/\ calls <= 1
          /\ started <= turn
          /\ Cardinality({i \in DOMAIN chat_history :
                             chat_history[i].role = "user"}) <= turn
          /\ (InTurn => started >= turn - 1))
    /\ [][turn' # turn => (~InTurn /\ calls = 0 /\ started = turn)]_vars

C5_Witness ==
    /\ calls = 1
    /\ \E i \in DOMAIN stt_events :
          stt_events[i].final /\ stt_events[i].text \in Texts
                              /\ stt_events[i].text # last_transcript

\* C6: a final transcript produced while a turn is in flight never starts a
\* turn, neither at once nor after the turn has completed.
C6_NoQueuedTurn ==
    [][(Evaluates /\ Head(stt_events).final /\ Head(stt_events).during)
       => NothingStarted]_vars

\* C7: a final event evaluated while is_processing or is_speaking is true
\* starts no turn and changes nothing.
C7_GatedEventChangesNothing ==
    [][(Evaluates /\ Head(stt_events).final /\ (is_processing \/ is_speaking))
       => NothingStarted]_vars

C7_Witness == last_outcome = "gated" /\ is_speaking /\ streaming(A)

\* C8: whenever the transcription task is waiting for the next recognizer
\* event, is_processing is false, also after a Reasoner call that raised.
C8_ProcessingReleased == (hpc = "wait") => ~is_processing

C8_Witness ==
    /\ turn = 2
    /\ InTurn
    /\ Len(chat_history) >= 1
    /\ chat_history[1].role = "user"
    /\ (Len(chat_history) >= 2 => chat_history[2].role = "user")

C10_TurnOrder ==
    /\ (IsPrefix(trace, SuccessOrder) \/ IsPrefix(trace, FailureOrder))
    /\ (hpc = "call" => now - last_transcript_time >= PreThink)
    /\ \A i \in DOMAIN sink :
          (sink[i].turn > 0 /\ ~sink[i].is_user) =>
              \E j \in 1..(i - 1) :
                  /\ sink[j].is_user
                  /\ sink[j].turn = sink[i].turn
                  /\ sink[j].by = H

C10_Witness == hpc = "wait" /\ trace = SuccessOrder

\* C11: while a Reasoner call is in progress, the history handed to it is the
\* session history without its last entry, which is the user utterance of the
\* turn: every earlier entry, in order, none dropped, the utterances of failed
\* turns (which have no assistant entry after them) included.
C11_HistoryBeforeTurn ==
    hpc = "call" =>
        LET n == Len(chat_history) IN
        /\ n >= 1
        /\ chat_history[n] = [role |-> "user", content |-> user_transcript]
        /\ Len(passed) = n - 1
        /\ \A i \in 1..(n - 1) :
              /\ passed[i].content = chat_history[i].content
              /\ (passed[i].message = "HumanMessage")
                    <=> (chat_history[i].role = "user")
              /\ (passed[i].message = "AIMessage")
                    <=> (chat_history[i].role = "assistant")

\* the second turn's call, after a first turn that failed
C11_Witness ==
    /\ hpc = "call"
    /\ turn = 2
    /\ Len(chat_history) = 2
    /\ passed = <<[message |-> "HumanMessage", content |-> chat_history[1].content]>>

\* the announcement enqueued k-th was emitted to the sink, not as user text
Emitted(k) ==
    \E j \in 1..Len(sink) :
        sink[j].by = A /\ sink[j].text = AnnTexts[k] /\ ~sink[j].is_user

\* C12: once the reply of a Reasoner call starts being spoken, every
\* announcement enqueued during that call has been emitted to the sink and
\* has started being spoken before it.
C12_AnnouncedBeforeReply ==
    \A i \in 1..Len(spoken) :
        spoken[i].by = H =>
            \A k \in 1..Len(enq_turn) :
                enq_turn[k] = spoken[i].turn =>
                    /\ Emitted(k)
                    /\ \E j \in 1..(i - 1) :
                          spoken[j].by = A /\ spoken[j].text = AnnTexts[k]

\* the announcement enqueued k-th has started being spoken
Spoken(k) ==
    \E j \in 1..Len(spoken) : spoken[j].by = A /\ spoken[j].text = AnnTexts[k]

EventIndex(k) ==
    CHOOSE j \in 1..Len(sink) : sink[j].by = A /\ sink[j].text = AnnTexts[k]

SpeechIndex(k) ==
    CHOOSE j \in 1..Len(spoken) :
        spoken[j].by = A /\ spoken[j].text = AnnTexts[k]

\* C13: announcements are emitted and spoken in the order they were enqueued:
\* an announcement's transcript event precedes its own speech, and when b was
\* enqueued after a, b's transcript event comes after a's transcript event
\* and after the start of a's speech.
C13_AnnouncementOrder ==
    \A k \in 1..enqueued :
        /\ Spoken(k) =>
              /\ Emitted(k)
              /\ EventIndex(k) <= spoken[SpeechIndex(k)].after
        /\ \A l \in (k + 1)..enqueued :
              Emitted(l) =>
                /\ Emitted(k)
                /\ EventIndex(k) < EventIndex(l)
                /\ Spoken(k) => spoken[SpeechIndex(k)].after < EventIndex(l)
                /\ Spoken(k) /\ Spoken(l) => SpeechIndex(k) < SpeechIndex(l)

\* two announcements of one Reasoner call, both emitted and both spoken
C13_Witness ==
    /\ enqueued >= 2
    /\ enq_turn[1] = enq_turn[2]
    /\ Spoken(1)
    /\ Spoken(2)

\* the step in which caller c invokes speak_text
SpeakEntry(c) ==
    IF c = H THEN hpc = "sent_reply" /\ Len(chat_history') > Len(chat_history)
             ELSE apc = "sent" /\ apc' \in {"poll", "speak"}

\* the step in which an invocation of speak_text by c ends, however it ends
SpeakExit(c) ==
    \/ streaming(c) /\ ~streaming(c)'
    \/ SpeakEntry(c) /\ ~streaming(c)'

\* C14: is_speaking is false after every step in which an invocation of
\* speak_text ends: completion, rejection by a pre-check, an exception of a
\* pre-check, a synthesizer error, a capture error, cancellation.
C14_SpeakingReleased ==
    [][\A c \in Callers : SpeakExit(c) => ~is_speaking']_vars

\* C15: a step that invokes speak_text while the room is disconnected or the
\* "agent-voice" publication is missing starts no synthesis, pushes no frame,
\* sends nothing, lets the caller run on as after a normal return and leaves
\* is_speaking false.
C15_RejectedSpeakIsNoOp ==
    [][\A c \in Callers :
          SpeakEntry(c) /\ ~precheck =>
              /\ ~is_speaking'
              /\ UNCHANGED <<spoken, chunks, sink>>
              /\ IF c = H THEN hpc' = "wait" ELSE apc' = "poll"]_vars

\* a turn whose reply went to speak_text and was not spoken
C15_Witness ==
    /\ ~precheck
    /\ trace = <<"user", "delay", "call", "assistant", "speak", "idle">>
    /\ spoken = <<>>
    /\ hpc = "wait"
    /\ ~is_speaking

\* C16: when speak_text finds the room disconnected at a chunk, it returns
\* with is_speaking false, and the cleanup body has not been entered before
\* that return: it runs afterwards.
C16_CleanupAfterSpeakStops ==
    [][(\E c \in Callers : speak_disconnected(c)) =>
            /\ ~is_speaking'
            /\ fx.entered = 0]_vars

\* C17: however often cleanup_resources is invoked, each of its effects
\* happens at most once, and an invocation that finds the guard set does not
\* touch the recognizer: it enters nothing.
C17_CleanupIdempotent ==
    [][/\ fx'.end_input <= 1
       /\ fx'.aclose <= 1
       /\ fx'.closed <= 1
       /\ fx'.stop <= 1
       /\ fx'.drain <= 1
       /\ (cleanup_done /\ fx'.calls > fx.calls) =>
              /\ fx'.entered = fx.entered
              /\ fx'.end_input = fx.end_input
              /\ fx'.aclose = fx.aclose
              /\ UNCHANGED <<cleanup_done, stt_input_ended>>]_vars

\* cleanup_resources was invoked three times and ran once
C17_Witness ==
    /\ fx.calls = 3
    /\ fx.stop = 1
    /\ fx.drain = 1

\* C18: the cleanup body is never entered twice, and it has been entered when
\* the entrypoint has returned.
C18_CleanupEnteredOnce ==
    /\ fx.entered <= 1
    /\ epc = "done" => fx.entered = 1

\* the entrypoint returned after a task ended by itself, without a signal
C18_Witness ==
    /\ epc = "done"
    /\ ~shutdown_event
    /\ connected
    /\ fx.entered = 1

\* C19: the cleanup body is entered only when the ingest, transcription and
\* announcement tasks have ended.
C19_CleanupAfterTasksEnd ==
    [][fx'.entered # fx.entered => {T, H, A} \cap Running = {}]_vars

\* C20: when the session has terminated, the recognizer got end-of-input and
\* its close returned or timed out, the track was stopped and the
\* announcement queue was drained.
C20_AllCleanupStepsDone ==
    Terminated =>
        /\ fx.end_input >= 1
        /\ fx.closed >= 1
        /\ fx.stop >= 1
        /\ fx.drain >= 1

\* C21: a close of the recognizer that times out or raises does not leave
\* cleanup_resources: in the step in which the failed close is handled the
\* outbound track is stopped and the announcement queue is emptied, and the
\* caller goes on as after a normal return (the disconnect watch to
\* ctx.shutdown, the entrypoint to its end).
C21_CleanupSurvivesFailedClose ==
    [][fx'.failed # fx.failed =>
          /\ fx'.stop = fx.stop + 1
          /\ fx'.drain = fx.drain + 1
          /\ announcement_queue' = <<>>
          /\ dpc' # dpc => dpc' = "shutdown"
          /\ epc' # epc => epc' = "done"]_vars

C21_Witness ==
    /\ fx.failed = 1
    /\ fx.stop = 1
    /\ fx.drain = 1
    /\ dpc = "shutdown"

\* C22 as stated: after the ingest task has ended on its own, the entrypoint
\* cancels no task unless the room has disconnected or a termination signal
\* has arrived.
C22_SiblingsKeptAfterIngestEnd ==
    [][(tpc = "done" /\ epc = "wait" /\ epc' \in {"gather", "cleanup", "done"})
          => (cancel_req' = cancel_req \/ ~connected \/ shutdown_event)]_vars

\* C22, amended: the end of the ingest task is itself a shutdown trigger: when
\* the entrypoint's wait returns after it, every task still running is
\* cancelled, and without a signal cleanup_resources is invoked in that step.
C22_IngestEndStopsSession ==
    [][(tpc = "done" /\ epc = "wait" /\ epc' \in {"gather", "cleanup", "done"})
          => /\ Running \subseteq cancel_req'
             /\ epc' # "gather" => fx'.calls > fx.calls]_vars

C22_Witness ==
    /\ tpc = "done"
    /\ connected
    /\ ~shutdown_event
    /\ epc = "cleanup"
    /\ {H, A, D} \subseteq cancel_req

\* C23: a capture failure that is neither an invalid-state nor an RTC error
\* does not end the stream: the speak_text invocation it happens in is still
\* streaming after it.
C23_StreamContinuesAfterCaptureError ==
    [][\A c \in Callers :
          speak_capture_error(c, "other") => streaming(c)']_vars

\* the reply of turn k was being streamed when the synthesizer raised
ReplyFailed(k) ==
    \E i \in 1..Len(spoken) :
        /\ spoken[i].by = H
        /\ spoken[i].turn = k
        /\ spoken[i].end = "synth_error"

\* C24: when the synthesizer raises while the reply of a turn is streamed,
\* speak_text returns to the turn without an exception (no fallback message
\* is sent, the history is left alone), the turn ends in that step with
\* is_speaking and is_processing both false, and the transcription task is
\* back at its event loop, where a later final transcript starts a turn.
C24_SynthErrorEndsTurnCleanly ==
    [][speak_synth_error(H) =>
          /\ ~is_speaking'
          /\ ~is_processing'
          /\ hpc' = "wait"
          /\ sink' = sink
          /\ chat_history' = chat_history
          /\ trace' = Append(trace, "idle")]_vars

\* a second turn has started after the reply of the first ended with a
\* synthesizer error
C24_Witness ==
    /\ ReplyFailed(1)
    /\ turn = 2
    /\ hpc = "sent_user"
    /\ is_processing

\* C25: after a room disconnect or a termination signal, once the entrypoint
\* has returned no background task is still running: each of the four has
\* finished or has been cancelled.
C25_NoTaskOutlivesEntrypoint ==
    ((~connected \/ shutdown_event) /\ epc = "done") => Running = {}

\* the Reasoner is inside a call and may invoke the tool callback
ReasonerMayAnnounce ==
    /\ hpc = "call"
    /\ H \notin cancel_req
    /\ enqueued < limit.anns

\* C26: the tool callback can be taken in every state in which the Reasoner
\* is running, whatever the queue holds, whatever the announcement task is
\* doing and whether or not cleanup has emptied the queue; it is one step
\* that appends the text and leaves the Reasoner call in progress.
C26_CallbackNeverBlocks ==
    /\ [](ReasonerMayAnnounce => ENABLED announce_tool_usage)
    /\ [][enqueued' # enqueued =>
             /\ announcement_queue' =
                    Append(announcement_queue, AnnTexts[enqueued'])
             /\ hpc' = "call"
             /\ calls' = calls
             /\ UNCHANGED <<flag_vars, sink, chat_history, apc>>]_vars

\* the callback has enqueued a narration after cleanup emptied the queue
C26_Witness ==
    /\ fx.drain = 1
    /\ hpc = "call"
    /\ enqueued = 1
    /\ announcement_queue = <<AnnTexts[1]>>

\* C27: wait_for_audio_track polls at most MaxAttempts times, PollInterval
\* apart; a poll is made only while no track is held and the poll that sees
\* one ends the polling; when MaxAttempts polls saw none the start fails, and
\* then, as in every state in which no track is held, no greeting was sent
\* and no task was created.
C27_DiscoveryTerminates ==
    /\ [](/\ attempts <= MaxAttempts
          /\ waited = attempts * PollInterval
          /\ spc = "failed" => attempts = MaxAttempts
          /\ spc \in {"found", "started"} <=> user_audio_track
          /\ ~user_audio_track => Unstarted)
    /\ [][attempts' # attempts =>
             /\ ~user_audio_track
             /\ attempts < MaxAttempts
             /\ inbound => user_audio_track' /\ spc' = "found"]_vars

\* every poll came up empty and the start has failed
C27_Witness ==
    /\ spc = "failed"
    /\ attempts = MaxAttempts
    /\ waited = MaxAttempts * PollInterval
    /\ Unstarted

\* C28: an event that is not final, or whose text is empty or whitespace
\* only, is taken from the stream and dropped in every state in which the
\* transcription task evaluates it: no turn starts, and the flags, the
\* DedupWindow, the history, the sink, the announcement queue and the
\* Reasoner calls stay as they were.
C28_InterimOrBlankIgnored ==
    [][(Evaluates /\ (~Head(stt_events).final \/ IsBlank(Head(stt_events).text)))
          => /\ NothingStarted
             /\ UNCHANGED <<trace, user_transcript, announcement_queue,
                            acc_at>>]_vars

\* an interim event was dropped on its own account: no turn was in flight and
\* nothing was being spoken when it was evaluated after the first turn
C28_Witness ==
    /\ last_outcome = "interim"
    /\ turn = 1
    /\ hpc = "wait"
    /\ ~is_processing
    /\ ~is_speaking

\* the frames of the events of q that carry one, in the order of q
Frames(q) ==
    LET w == SelectSeq(q, LAMBDA e : e.frame # NoFrame)
    IN  [i \in 1..Len(w) |-> w[i].frame]

C30_SpeakingWhileStreaming ==
    (streaming(H) \/ streaming(A)) => is_speaking

\* the user entry the sink holds for turn k
UserEvent(k) ==
    CHOOSE i \in 1..Len(sink) : sink[i].is_user /\ sink[i].turn = k

\* C31: the DedupWindow holds the text of the turn accepted last (None and 0
\* before the first), and a step writes it exactly when it accepts a final
\* transcript as a turn: the window then takes that event's text and the
\* time of the acceptance, and a rejected event leaves both as they were.
C31_DedupWindowIsLastTurn ==
    /\ [](IF turn = 0
          THEN last_transcript = NoneText /\ last_transcript_time = 0
          ELSE /\ last_transcript = sink[UserEvent(turn)].text
               /\ last_transcript_time <= now)
    /\ [][LET accepts == Evaluates /\ Outcome(Head(stt_events)) = "accept" IN
          /\ (turn' # turn) <=> accepts
          /\ accepts => (/\ Head(stt_events).final
                         /\ turn' = turn + 1
                         /\ last_transcript' = Head(stt_events).text
                         /\ last_transcript_time' = now)
          /\ ~accepts => UNCHANGED dedup_vars]_vars

\* a repeat of the first turn's text was rejected later than the turn was
\* accepted, and the window still holds the time of the acceptance
C31_Witness ==
    /\ last_outcome = "duplicate"
    /\ turn = 1
    /\ last_transcript_time < now

\* the entries of the history a turn with this text has appended when the
\* Reasoner returned, and when it raised
TurnEntries(text, replied) ==
    IF replied
    THEN <<[role |-> "user", content |-> text],
           [role |-> "assistant", content |-> Reply]>>
    ELSE <<[role |-> "user", content |-> text]>>

\* the history ends with the entries q
EndsWith(h, q) ==
    /\ Len(q) <= Len(h)
    /\ SubSeq(h, Len(h) - Len(q) + 1, Len(h)) = q

\* C32: a step that changes the history appends one entry to it; every
\* assistant entry stands right behind a user entry; the history holds one
\* user entry for each turn (the turn just accepted gets its entry in its
\* next step); and a finished turn has left its user entry followed by the
\* reply when the Reasoner returned, and its user entry alone when the
\* Reasoner raised.
C32_HistoryAppendOnly ==
    /\ [](/\ \A i \in 1..Len(chat_history) :
                chat_history[i].role = "assistant" =>
                    i > 1 /\ chat_history[i - 1].role = "user"
          /\ Len(SelectSeq(chat_history, LAMBDA m : m.role = "user"))
                = IF hpc = "sent_user" THEN turn - 1 ELSE turn
          /\ (hpc = "wait" /\ trace = SuccessOrder)
                => EndsWith(chat_history, TurnEntries(user_transcript, TRUE))
          /\ (hpc = "wait" /\ trace = FailureOrder)
                => EndsWith(chat_history, TurnEntries(user_transcript, FALSE)))
    /\ [][chat_history' # chat_history =>
             \E m \in [role : {"user", "assistant"}, content : Texts \cup {Reply}] :
                 chat_history' = Append(chat_history, m)]_vars

\* a turn whose Reasoner call raised, then a turn that was answered
C32_Witness ==
    /\ turn = 2
    /\ hpc = "wait"
    /\ Len(chat_history) = 3
    /\ chat_history[1].role = "user"
    /\ chat_history[2].role = "user"
    /\ chat_history[3].role = "assistant"

\* C33: whenever the Reasoner has tools and begins a call of one of the known
\* tools, that step enqueues one narration on the announcement queue.
C33_EveryToolCallNarrated ==
    [][tool_calls' # tool_calls =>
          /\ enqueued' = enqueued + 1
          /\ Len(announcement_queue') = Len(announcement_queue) + 1]_vars

\* C34: when the entrypoint, waiting for the first task to end, goes on to
\* cancel the remaining tasks, the shutdown flag is set, whatever the trigger
\* was (a signal, a room disconnect, a task that ended).
C34_FlagSetBeforeCancel ==
    [][(epc = "wait" /\ cancel_req' # cancel_req) => shutdown_event']_vars

\* C35: once the body of cleanup_resources has been entered, no step accepts
\* a turn and no step of speak_text pushes a chunk to the outbound source.
C35_QuietAfterCleanupStarts ==
    [][fx.entered > 0 =>
          /\ turn' = turn
          /\ \A c \in Callers : chunks'[c] <= chunks[c]]_vars

\* the ways a stream of speak_text ends on a failure
SpeakFailures == CaptureErrors \cup {"synth_error"}

\* the speech of the announcement enqueued k-th ended on a failure
AnnouncementFailed(k) ==
    \E j \in 1..Len(spoken) :
        /\ spoken[j].by = A
        /\ spoken[j].text = AnnTexts[k]
        /\ spoken[j].end \in SpeakFailures

\* C36: a failure while an announcement is spoken (the synthesizer raises,
\* capture_frame raises) leaves the consumer at its queue with every queued
\* announcement still in it; no step ends the consumer unless it was
\* cancelled; and whenever it is back at an empty queue, every announcement
\* enqueued so far was emitted to the sink and, the pre-checks of speak_text
\* passing (room connected, agent track published), started being spoken.
C36_ConsumerSurvivesFailure ==
    /\ [][(apc # "done" /\ apc' = "done") => A \in cancel_req]_vars
    /\ []((apc = "poll" /\ announcement_queue = <<>>) =>
             \A k \in 1..enqueued : Emitted(k) /\ (precheck => Spoken(k)))
    /\ [][(\/ speak_synth_error(A)
           \/ \E kind \in CaptureErrors : speak_capture_error(A, kind)) =>
             /\ apc' = "poll"
             /\ announcement_queue' = announcement_queue
             /\ enqueued' = enqueued]_vars

\* the first announcement failed while spoken, and the second, enqueued
\* behind it, was emitted and its speech ran to the end of the stream
C36_Witness ==
    /\ enqueued = 2
    /\ AnnouncementFailed(1)
    /\ Emitted(2)
    /\ \E j \in 1..Len(spoken) :
          /\ spoken[j].by = A
          /\ spoken[j].text = AnnTexts[2]
          /\ spoken[j].end = "done"
====
